---- MODULE Spec2Model ----
\* Model of pdf-merge.py: the range parser (parse_ranges), the split name
\* planner (make_split_name) and the two command flows merge_cmd and split_cmd.
\* Strings are sequences of one-character strings, so that strip, split, int
\* and format are computed, not assumed.
EXTENDS Integers, Sequences, FiniteSets, TLC

VARIABLES cmd, pc, fs, fs0, dirs, inputs, output, outdir, password, overwrite,
          namePattern, rangesSpec, total, fhs, readers, writerMeta,
          writerPages, ranges, planned, clashes, k, exitCode, stderr

vars == <<cmd, pc, fs, fs0, dirs, inputs, output, outdir, password, overwrite,
          namePattern, rangesSpec, total, fhs, readers, writerMeta,
          writerPages, ranges, planned, clashes, k, exitCode, stderr>>

\* ---------------------------------------------------------------- bounds
MaxLen == 4          \* longest range spec string drawn for parse_ranges
MaxPages == 2        \* largest page count of an input document
MaxInputs == 2       \* longest merge input list
MaxExisting == 2     \* most files already present in the output directory

\* ------------------------------------------------------- python strings
Chars == {"0", "1", "2", "-", ",", " ", "x"}
DigitChars == <<"0", "1", "2", "3", "4", "5", "6", "7", "8", "9">>
Digits == {DigitChars[i] : i \in 1..10}
DigitVal(c) == (CHOOSE i \in 1..10 : DigitChars[i] = c) - 1

\* every string of at most n characters
Strings(n) == UNION {[1..m -> Chars] : m \in 0..n}

IsSpace(c) == c = " "

RECURSIVE LStrip(_)
LStrip(s) == IF s # <<>> /\ IsSpace(Head(s)) THEN LStrip(Tail(s)) ELSE s

RECURSIVE RStrip(_)
RStrip(s) == IF s # <<>> /\ IsSpace(s[Len(s)])
             THEN RStrip(SubSeq(s, 1, Len(s) - 1)) ELSE s

\* str.strip()
Strip(s) == RStrip(LStrip(s))

\* index of the first occurrence of c in s, 0 when there is none (str.find + 1)
Find(s, c) == IF \E i \in 1..Len(s) : s[i] = c
              THEN CHOOSE i \in 1..Len(s) : s[i] = c /\ \A j \in 1..(i - 1) : s[j] # c
              ELSE 0

\* str.split(sep): "".split(",") is [""]
RECURSIVE SplitOn(_, _)
SplitOn(s, sep) == LET i == Find(s, sep)
                   IN IF i = 0 THEN <<s>>
                      ELSE <<SubSeq(s, 1, i - 1)>> \o SplitOn(SubSeq(s, i + 1, Len(s)), sep)

RECURSIVE DecVal(_)
DecVal(s) == IF s = <<>> THEN 0 ELSE 10 * DecVal(SubSeq(s, 1, Len(s) - 1)) + DigitVal(s[Len(s)])

IsDigits(body) == body # <<>> /\ \A i \in 1..Len(body) : body[i] \in Digits

\* the value of the stripped text t whose digits, after an optional sign, are body
PyIntBody(t, body) ==
    [ok |-> IsDigits(body),
     val |-> IF ~IsDigits(body) THEN 0
             ELSE IF t[1] = "-" THEN 0 - DecVal(body) ELSE DecVal(body)]

PyIntSigned(t) == PyIntBody(t, IF t # <<>> /\ t[1] \in {"-", "+"} THEN Tail(t) ELSE t)

\* int(s): surrounding whitespace is ignored, one optional sign, then digits;
\* anything else raises ValueError (ok = FALSE)
PyInt(s) == PyIntSigned(Strip(s))

RECURSIVE StrOfNat(_)
StrOfNat(n) == IF n < 10 THEN <<DigitChars[n + 1]>>
               ELSE StrOfNat(n \div 10) \o <<DigitChars[(n % 10) + 1]>>

\* str(n) for an integer
PyStr(n) == IF n < 0 THEN <<"-">> \o StrOfNat(0 - n) ELSE StrOfNat(n)

\* ---------------------------------------------------------- parse_ranges
MsgEmpty == "No pages matched ranges"
MsgInvalid == "Invalid range token"
MsgPositive == "Range must be positive"
MsgInverted == "Range start > end"
MsgBounds == "Range out of bounds"

RECURSIVE Tokenize(_)
Tokenize(parts) == IF parts = <<>> THEN <<>>
                   ELSE LET t == Strip(Head(parts))
                        IN IF t # <<>> THEN <<t>> \o Tokenize(Tail(parts))
                           ELSE Tokenize(Tail(parts))

\* tokens = [t.strip() for t in spec.split(",") if t.strip()]
Tokens(spec) == Tokenize(SplitOn(spec, ","))

\* TokenBounds with the open end of A- taken as A itself
TokenBounds_OpenEndIsStart(tok, total_pages) ==
    IF tok = <<"-">> THEN [ok |-> FALSE, start |-> 0, end |-> 0]
    ELSE IF Find(tok, "-") # 0
    THEN IF tok[1] = "-"
         THEN LET e == PyInt(Tail(tok))
              IN [ok |-> e.ok, start |-> 1, end |-> e.val]
         ELSE IF tok[Len(tok)] = "-"
         THEN LET s == PyInt(SubSeq(tok, 1, Len(tok) - 1))
              IN [ok |-> s.ok, start |-> s.val, end |-> s.val]
         ELSE LET i == Find(tok, "-")
                  a == PyInt(SubSeq(tok, 1, i - 1))
                  b == PyInt(SubSeq(tok, i + 1, Len(tok)))
              IN [ok |-> a.ok /\ b.ok, start |-> a.val, end |-> b.val]
    ELSE LET n == PyInt(tok)
         IN [ok |-> n.ok, start |-> n.val, end |-> n.val]

\* the body of the for loop up to the int conversions (lines 26-53)
TokenBounds(tok, total_pages) ==
    IF tok = <<"-">> THEN [ok |-> FALSE, start |-> 0, end |-> 0]
    ELSE IF Find(tok, "-") # 0
    THEN IF tok[1] = "-"
         THEN LET e == PyInt(Tail(tok))
              IN [ok |-> e.ok, start |-> 1, end |-> e.val]
         ELSE IF tok[Len(tok)] = "-"
         THEN LET s == PyInt(SubSeq(tok, 1, Len(tok) - 1))
              IN [ok |-> s.ok, start |-> s.val, end |-> total_pages]
         ELSE LET i == Find(tok, "-")
                  a == PyInt(SubSeq(tok, 1, i - 1))
                  b == PyInt(SubSeq(tok, i + 1, Len(tok)))
              IN [ok |-> a.ok /\ b.ok, start |-> a.val, end |-> b.val]
    ELSE LET n == PyInt(tok)
         IN [ok |-> n.ok, start |-> n.val, end |-> n.val]

\* RangeChecks with the inverted check made before the positive check
RangeChecks_InvertedFirst(r, total_pages) ==
    IF ~r.ok THEN MsgInvalid
    ELSE IF r.start > r.end THEN MsgInverted
    ELSE IF r.start <= 0 \/ r.end <= 0 THEN MsgPositive
    ELSE IF r.start > total_pages \/ r.end > total_pages THEN MsgBounds
    ELSE ""

\* the checks of lines 26-60 on what a token converted to, in their order;
\* "" when it passes
RangeChecks(r, total_pages) ==
    IF ~r.ok THEN MsgInvalid
    ELSE IF r.start <= 0 \/ r.end <= 0 THEN MsgPositive
    ELSE IF r.start > r.end THEN MsgInverted
    ELSE IF r.start > total_pages \/ r.end > total_pages THEN MsgBounds
    ELSE ""

TokenError(tok, total_pages) == RangeChecks(TokenBounds(tok, total_pages), total_pages)

RECURSIVE ParseLoop(_, _, _)

\* one iteration of the for loop (lines 25-61) on the first of tokens, e being
\* its error and r what it converted to
ParseToken(tokens, total_pages, result, e, r) ==
    IF e # "" THEN [ok |-> FALSE, ranges |-> <<>>, msg |-> e, tok |-> Head(tokens)]
    ELSE ParseLoop(Tail(tokens), total_pages, Append(result, <<r.start, r.end>>))

ParseLoop(tokens, total_pages, result) ==
    IF tokens = <<>> THEN [ok |-> TRUE, ranges |-> result, msg |-> "", tok |-> <<>>]
    ELSE ParseToken(tokens, total_pages, result,
                    TokenError(Head(tokens), total_pages),
                    TokenBounds(Head(tokens), total_pages))

ParseTokens(tokens, total_pages) ==
    IF tokens = <<>>
    THEN [ok |-> FALSE, ranges |-> <<>>, msg |-> MsgEmpty, tok |-> <<>>]
    ELSE ParseLoop(tokens, total_pages, <<>>)

parse_ranges(spec, total_pages) == ParseTokens(Tokens(spec), total_pages)

\* ------------------------------------------------------------- reporting
NoErr == [kind |-> "", msg |-> "", path |-> <<>>, tok |-> <<>>, files |-> <<>>]

\* err(msg): the message goes to stderr and the process exits with code 2
err(kind, msg, path, tok, files) ==
    [kind |-> kind, msg |-> msg, path |-> path, tok |-> tok, files |-> files]

\* ------------------------------------------------- parse_ranges in isolation
InitParse ==
    /\ cmd = "parse"
    /\ pc = "parse"
    /\ rangesSpec \in Strings(MaxLen)
    /\ total \in 0..MaxPages
    /\ fs = <<>> /\ fs0 = <<>> /\ dirs = {}
    /\ inputs = <<>> /\ output = <<>> /\ outdir = <<>>
    /\ password = "" /\ overwrite = FALSE /\ namePattern = <<>>
    /\ fhs = <<>> /\ readers = <<>> /\ writerMeta = <<>> /\ writerPages = <<>>
    /\ ranges = <<>> /\ planned = <<>> /\ clashes = <<>> /\ k = 0
    /\ exitCode = -1 /\ stderr = NoErr

\* what a call leaves behind: the ranges, or the message and exit status of err
Returned(r) ==
    /\ ranges' = r.ranges
    /\ stderr' = IF r.ok THEN NoErr ELSE err("InvalidSpec", r.msg, <<>>, r.tok, <<>>)
    /\ exitCode' = IF r.ok THEN 0 ELSE 2

ParseCall ==
    /\ cmd = "parse" /\ pc = "parse"
    /\ Returned(parse_ranges(rangesSpec, total))
    /\ pc' = "done"
    /\ UNCHANGED <<cmd, fs, fs0, dirs, inputs, output, outdir, password, overwrite,
                   namePattern, rangesSpec, total, fhs, readers, writerMeta,
                   writerPages, planned, clashes, k>>

NextParse == ParseCall

SpecParse == InitParse /\ [][NextParse]_vars

\* ------------------------------------------------------------ documents
\* A metadata value is None or a string; a document is what PdfReader sees in
\* a file: its pages in native order, the password it is encrypted with ("" when
\* it is not encrypted), its metadata dict (<<>> when it has none) and whether
\* the file is a truncated write.
PyNone == [none |-> TRUE, s |-> <<>>]
StrVal(s) == [none |-> FALSE, s |-> s]

MetaKeys == {<<"/", "T">>, <<"P">>}
MetaVals == {PyNone, StrVal(<<"x">>)}
Metas == UNION {[K -> MetaVals] : K \in SUBSET MetaKeys}

PagesOf(name, n) == [i \in 1..n |-> <<name, i>>]
MkDoc(pages, enc, meta) == [pages |-> pages, enc |-> enc, meta |-> meta, trunc |-> FALSE]
OldDoc == MkDoc(PagesOf("old", 1), "", <<>>)
Truncated == [pages |-> <<>>, enc |-> "", meta |-> <<>>, trunc |-> TRUE]

PathA == <<"a", ".", "p", "d", "f">>
PathB == <<"b", ".", "p", "d", "f">>
PathM == <<"m", ".", "p", "d", "f">>      \* never exists
OutDir == <<"o">>
MergeOut == <<"o", "/", "m">>
Passwords == {"", "pw", "bad"}            \* "" stands for no --password

\* Path.exists()
Exists(files, path) == path \in DOMAIN files

\* open(path, "wb") followed by a complete write of doc
WriteFile(files, path, doc) ==
    [p \in DOMAIN files \cup {path} |-> IF p = path THEN doc ELSE files[p]]

\* Path.parent of a path with a directory part
Parent(path) == LET slashes == {i \in 1..Len(path) : path[i] = "/"}
                IN IF slashes = {} THEN <<".">>
                   ELSE SubSeq(path, 1, (CHOOSE i \in slashes : \A j \in slashes : j <= i) - 1)

\* every sequence over S of at most n elements
SeqsUpTo(S, n) == UNION {[1..m -> S] : m \in 0..n}

\* ------------------------------------------------------------- merge_cmd
InitMerge ==
    /\ cmd = "merge"
    /\ pc = "m_check"
    /\ inputs \in SeqsUpTo({PathA, PathB, PathM}, MaxInputs) \ {<<>>}
    /\ output = MergeOut
    /\ \E na \in 1..MaxPages, ea \in {"", "pw"}, ma \in Metas,
          eb \in {"", "pw"}, mb \in {<<>>, [q \in {<<"/", "T">>} |-> StrVal(<<"y">>)]},
          pre \in BOOLEAN :
          LET base == [p \in {PathA, PathB} |->
                          IF p = PathA THEN MkDoc(PagesOf("a", na), ea, ma)
                          ELSE MkDoc(PagesOf("b", 1), eb, mb)]
          IN fs = IF pre THEN WriteFile(base, MergeOut, OldDoc) ELSE base
    /\ fs0 = fs
    /\ dirs = {}
    /\ password \in Passwords
    /\ overwrite \in BOOLEAN
    /\ outdir = <<>> /\ namePattern = <<>> /\ rangesSpec = <<>> /\ total = 0
    /\ fhs = <<>> /\ readers = <<>> /\ writerMeta = <<>> /\ writerPages = <<>>
    /\ ranges = <<>> /\ planned = <<>> /\ clashes = <<>> /\ k = 0
    /\ exitCode = -1 /\ stderr = NoErr

\* MergeCheckOutput that opens the output for writing right after the guard
MergeCheckOutput_OpensOutput ==
    /\ cmd = "merge" /\ pc = "m_check"
    /\ IF Exists(fs, output) /\ ~overwrite
       THEN /\ stderr' = err("OutputExists", "Refusing to overwrite existing file", output, <<>>, <<>>)
            /\ exitCode' = 2
            /\ pc' = "done"
            /\ UNCHANGED fs
       ELSE /\ pc' = "m_open"
            /\ fs' = WriteFile(fs, output, Truncated)
            /\ UNCHANGED <<stderr, exitCode>>
    /\ k' = 1
    /\ UNCHANGED <<cmd, fs0, dirs, inputs, output, outdir, password, overwrite,
                   namePattern, rangesSpec, total, fhs, readers, writerMeta,
                   writerPages, ranges, planned, clashes>>

\* lines 90-93: the overwrite guard, before the try block
MergeCheckOutput ==
    /\ cmd = "merge" /\ pc = "m_check"
    /\ IF Exists(fs, output) /\ ~overwrite
       THEN /\ stderr' = err("OutputExists", "Refusing to overwrite existing file", output, <<>>, <<>>)
            /\ exitCode' = 2
            /\ pc' = "done"
       ELSE /\ pc' = "m_open"
            /\ UNCHANGED <<stderr, exitCode>>
    /\ k' = 1
    /\ UNCHANGED <<cmd, fs, fs0, dirs, inputs, output, outdir, password, overwrite,
                   namePattern, rangesSpec, total, fhs, readers, writerMeta,
                   writerPages, ranges, planned, clashes>>

\* lines 98-109: one iteration of the loop over inputs
MergeOpenInput ==
    /\ cmd = "merge" /\ pc = "m_open" /\ k <= Len(inputs)
    /\ LET path == inputs[k]
       IN IF ~Exists(fs, path)
          THEN \* open() raises FileNotFoundError: uncaught, traceback, status 1
               /\ stderr' = err("Traceback", "FileNotFoundError", path, <<>>, <<>>)
               /\ exitCode' = 1
               /\ pc' = "m_finally"
               /\ UNCHANGED <<fhs, readers, k>>
          ELSE /\ fhs' = Append(fhs, [path |-> path, open |-> TRUE])
               /\ IF fs[path].enc # "" /\ password = ""
                  THEN /\ stderr' = err("PasswordRequired", "File is encrypted", path, <<>>, <<>>)
                       /\ exitCode' = 2
                       /\ pc' = "m_finally"
                       /\ UNCHANGED <<readers, k>>
                  ELSE IF fs[path].enc # "" /\ password # fs[path].enc
                  THEN /\ stderr' = err("DecryptionFailed", "Failed to decrypt", path, <<>>, <<>>)
                       /\ exitCode' = 2
                       /\ pc' = "m_finally"
                       /\ UNCHANGED <<readers, k>>
                  ELSE /\ readers' = Append(readers, [fh |-> Len(fhs) + 1, doc |-> fs[path]])
                       /\ k' = k + 1
                       /\ UNCHANGED <<stderr, exitCode, pc>>
    /\ UNCHANGED <<cmd, fs, fs0, dirs, inputs, output, outdir, password, overwrite,
                   namePattern, rangesSpec, total, writerMeta, writerPages,
                   ranges, planned, clashes>>

\* MergeMd that leaves out the entries whose value is None
MergeMd_SkipsNull(meta) ==
    LET keep == {q \in DOMAIN meta : q # <<>> /\ q[1] = "/" /\ ~meta[q].none}
    IN [q \in keep |-> StrVal(meta[q].s)]

\* lines 114-117: the dict handed to add_metadata
MergeMd(meta) ==
    LET keep == {q \in DOMAIN meta : q # <<>> /\ q[1] = "/"}
    IN [q \in keep |-> IF meta[q].none THEN StrVal(<<>>) ELSE StrVal(meta[q].s)]

\* lines 111-119: the writer and the metadata of the first input
MergeMetadata ==
    /\ cmd = "merge" /\ pc = "m_open" /\ k > Len(inputs)
    /\ writerMeta' = IF readers # <<>> /\ readers[1].doc.meta # <<>>
                     THEN MergeMd(readers[1].doc.meta) ELSE <<>>
    /\ pc' = "m_pages"
    /\ UNCHANGED <<cmd, fs, fs0, dirs, inputs, output, outdir, password, overwrite,
                   namePattern, rangesSpec, total, fhs, readers, writerPages,
                   ranges, planned, clashes, k, exitCode, stderr>>

\* AllPages with each reader's pages put in front of the earlier ones
RECURSIVE AllPages_Reversed(_)
AllPages_Reversed(rs) ==
    IF rs = <<>> THEN <<>> ELSE AllPages_Reversed(Tail(rs)) \o Head(rs).doc.pages

RECURSIVE AllPages(_)
AllPages(rs) == IF rs = <<>> THEN <<>> ELSE Head(rs).doc.pages \o AllPages(Tail(rs))

\* lines 121-123: every page of every reader, in order
MergeAddPages ==
    /\ cmd = "merge" /\ pc = "m_pages"
    /\ writerPages' = AllPages(readers)
    /\ pc' = "m_write"
    /\ UNCHANGED <<cmd, fs, fs0, dirs, inputs, output, outdir, password, overwrite,
                   namePattern, rangesSpec, total, fhs, readers, writerMeta,
                   ranges, planned, clashes, k, exitCode, stderr>>

\* lines 125-127: parent directories, then the output file
MergeWrite ==
    /\ cmd = "merge" /\ pc = "m_write"
    /\ dirs' = dirs \cup {Parent(output)}
    /\ fs' = WriteFile(fs, output, MkDoc(writerPages, "", writerMeta))
    /\ exitCode' = 0
    /\ pc' = "m_finally"
    /\ UNCHANGED <<cmd, fs0, inputs, output, outdir, password, overwrite,
                   namePattern, rangesSpec, total, fhs, readers, writerMeta,
                   writerPages, ranges, planned, clashes, k, stderr>>

\* lines 126-127 when the write raises (disk full, ...): the file was opened
\* with "wb" and is left truncated; the exception is uncaught
MergeWriteFail ==
    /\ cmd = "merge" /\ pc = "m_write"
    /\ dirs' = dirs \cup {Parent(output)}
    /\ fs' = WriteFile(fs, output, Truncated)
    /\ stderr' = err("Traceback", "OSError", output, <<>>, <<>>)
    /\ exitCode' = 1
    /\ pc' = "m_finally"
    /\ UNCHANGED <<cmd, fs0, inputs, output, outdir, password, overwrite,
                   namePattern, rangesSpec, total, fhs, readers, writerMeta,
                   writerPages, ranges, planned, clashes, k>>

CloseAll(hs) == [i \in 1..Len(hs) |-> [hs[i] EXCEPT !.open = FALSE]]

\* MergeFinally that closes the handles of the readers only
MergeFinally_ClosesReaders ==
    /\ cmd = "merge" /\ pc = "m_finally"
    /\ fhs' = [i \in 1..Len(fhs) |->
                  IF \E j \in 1..Len(readers) : readers[j].fh = i
                  THEN [fhs[i] EXCEPT !.open = FALSE] ELSE fhs[i]]
    /\ pc' = "done"
    /\ UNCHANGED <<cmd, fs, fs0, dirs, inputs, output, outdir, password, overwrite,
                   namePattern, rangesSpec, total, readers, writerMeta,
                   writerPages, ranges, planned, clashes, k, exitCode, stderr>>

\* lines 128-131
MergeFinally ==
    /\ cmd = "merge" /\ pc = "m_finally"
    /\ fhs' = CloseAll(fhs)
    /\ pc' = "done"
    /\ UNCHANGED <<cmd, fs, fs0, dirs, inputs, output, outdir, password, overwrite,
                   namePattern, rangesSpec, total, readers, writerMeta,
                   writerPages, ranges, planned, clashes, k, exitCode, stderr>>

\* ------------------------------------------------------- make_split_name
Placeholders == {"{base}", "{page}", "{start}", "{end}"}
NoneText == <<"N", "o", "n", "e">>        \* format() of None

\* str.format over a pattern given as a sequence of literal characters and
\* replacement fields
RECURSIVE Format(_, _, _, _, _)
Format(pattern, base, page, start, end) ==
    IF pattern = <<>> THEN <<>>
    ELSE LET h == Head(pattern)
             piece == IF h = "{base}" THEN base
                      ELSE IF h = "{page}" THEN page
                      ELSE IF h = "{start}" THEN PyStr(start)
                      ELSE IF h = "{end}" THEN PyStr(end)
                      ELSE <<h>>
         IN piece \o Format(Tail(pattern), base, page, start, end)

\* make_split_name with page = start for every range
make_split_name_PageIsStart(base, start, end, pattern) ==
    IF pattern # <<>>
    THEN Format(pattern, base, PyStr(start), start, end)
    ELSE IF start = end
    THEN base \o <<"_", "p">> \o PyStr(start) \o <<".", "p", "d", "f">>
    ELSE base \o <<"_", "p">> \o PyStr(start) \o <<"-">> \o PyStr(end) \o <<".", "p", "d", "f">>

make_split_name(base, start, end, pattern) ==
    IF pattern # <<>>
    THEN Format(pattern, base, IF start = end THEN PyStr(start) ELSE NoneText, start, end)
    ELSE IF start = end
    THEN base \o <<"_", "p">> \o PyStr(start) \o <<".", "p", "d", "f">>
    ELSE base \o <<"_", "p">> \o PyStr(start) \o <<"-">> \o PyStr(end) \o <<".", "p", "d", "f">>

\* Path.stem: the final component without its last suffix
Stem(path) ==
    LET slashes == {i \in 1..Len(path) : path[i] = "/"}
        from == IF slashes = {} THEN 1 ELSE (CHOOSE i \in slashes : \A j \in slashes : j <= i) + 1
        name == SubSeq(path, from, Len(path))
        dots == {i \in 1..Len(name) : name[i] = "."}
        last == IF dots = {} THEN 0 ELSE CHOOSE i \in dots : \A j \in dots : j <= i
    IN IF last > 1 /\ last < Len(name) THEN SubSeq(name, 1, last - 1) ELSE name

\* out_dir / name
Join(dir, name) == dir \o <<"/">> \o name

\* -------------------------------------------------------------- split_cmd
Patterns == {<<>>,
             <<"{base}", "_", "{start}", "-", "{end}">>,
             <<"{base}", "_", "{page}">>,
             <<"f">>}

SplitSpecs == {<<>>, <<"1">>, <<"1", ",", "2">>, <<"1", "-", "2">>, <<"1", ",", "1">>,
               <<"1", "-", "2", ",", "2">>, <<"2", "-">>, <<"-", "1">>, <<"-">>,
               <<"0">>, <<"2", "-", "1">>, <<"3">>, <<"x">>, <<"1", ",", "x">>}

\* the target paths some range of a document of at most MaxPages pages can get
Candidates(pattern) ==
    {Join(OutDir, make_split_name(Stem(PathA), a, b, pattern)) :
        a \in 1..MaxPages, b \in 1..MaxPages}

InitSplit ==
    /\ cmd = "split"
    /\ pc = "s_exists"
    /\ inputs = <<PathA>>
    /\ outdir = OutDir
    /\ namePattern \in Patterns
    /\ rangesSpec \in SplitSpecs
    /\ \E n \in 1..MaxPages, e \in {"", "pw"}, there \in BOOLEAN,
          old \in {S \in SUBSET Candidates(namePattern) : Cardinality(S) <= MaxExisting} :
          fs = [p \in old \cup (IF there THEN {PathA} ELSE {}) |->
                   IF p = PathA THEN MkDoc(PagesOf("a", n), e, <<>>) ELSE OldDoc]
    /\ fs0 = fs
    /\ dirs = {}
    /\ password \in Passwords
    /\ overwrite \in BOOLEAN
    /\ output = <<>> /\ total = 0
    /\ fhs = <<>> /\ readers = <<>> /\ writerMeta = <<>> /\ writerPages = <<>>
    /\ ranges = <<>> /\ planned = <<>> /\ clashes = <<>> /\ k = 0
    /\ exitCode = -1 /\ stderr = NoErr

\* lines 145-148: require_exists, then the output directory
SplitRequireExists ==
    /\ cmd = "split" /\ pc = "s_exists"
    /\ IF ~Exists(fs, inputs[1])
       THEN /\ stderr' = err("InputNotFound", "Input not found", inputs[1], <<>>, <<>>)
            /\ exitCode' = 2
            /\ pc' = "done"
            /\ UNCHANGED dirs
       ELSE /\ dirs' = dirs \cup {outdir}
            /\ pc' = "s_open"
            /\ UNCHANGED <<stderr, exitCode>>
    /\ UNCHANGED <<cmd, fs, fs0, inputs, output, outdir, password, overwrite,
                   namePattern, rangesSpec, total, fhs, readers, writerMeta,
                   writerPages, ranges, planned, clashes, k>>

\* lines 151-159: open and decrypt
SplitOpen ==
    /\ cmd = "split" /\ pc = "s_open"
    /\ fhs' = <<[path |-> inputs[1], open |-> TRUE]>>
    /\ LET doc == fs[inputs[1]]
       IN IF doc.enc # "" /\ password = ""
          THEN /\ stderr' = err("PasswordRequired", "File is encrypted", inputs[1], <<>>, <<>>)
               /\ exitCode' = 2
               /\ pc' = "s_finally"
               /\ UNCHANGED readers
          ELSE IF doc.enc # "" /\ password # doc.enc
          THEN /\ stderr' = err("DecryptionFailed", "Failed to decrypt", inputs[1], <<>>, <<>>)
               /\ exitCode' = 2
               /\ pc' = "s_finally"
               /\ UNCHANGED readers
          ELSE /\ readers' = <<[fh |-> 1, doc |-> doc]>>
               /\ pc' = "s_parse"
               /\ UNCHANGED <<stderr, exitCode>>
    /\ UNCHANGED <<cmd, fs, fs0, dirs, inputs, output, outdir, password, overwrite,
                   namePattern, rangesSpec, total, writerMeta, writerPages,
                   ranges, planned, clashes, k>>

\* line 162 with r the outcome of parse_ranges: its err() ends the run
SplitParsed(r) ==
    IF r.ok
    THEN /\ ranges' = r.ranges
         /\ pc' = "s_plan"
         /\ UNCHANGED <<stderr, exitCode>>
    ELSE /\ stderr' = err("InvalidSpec", r.msg, <<>>, r.tok, <<>>)
         /\ exitCode' = 2
         /\ pc' = "s_finally"
         /\ UNCHANGED ranges

\* lines 161-163
SplitParse ==
    /\ cmd = "split" /\ pc = "s_parse"
    /\ total' = Len(readers[1].doc.pages)
    /\ SplitParsed(parse_ranges(rangesSpec, Len(readers[1].doc.pages)))
    /\ UNCHANGED <<cmd, fs, fs0, dirs, inputs, output, outdir, password, overwrite,
                   namePattern, rangesSpec, fhs, readers, writerMeta, writerPages,
                   planned, clashes, k>>

\* lines 166-169
Plan(rs, base, dir, pattern) ==
    [i \in 1..Len(rs) |-> Join(dir, make_split_name(base, rs[i][1], rs[i][2], pattern))]

\* Clashes that stops at the first existing path
RECURSIVE Clashes_FirstOnly(_, _)
Clashes_FirstOnly(ps, files) ==
    IF ps = <<>> THEN <<>>
    ELSE IF Exists(files, Head(ps)) THEN <<Head(ps)>>
    ELSE Clashes_FirstOnly(Tail(ps), files)

\* line 172: [p for p in planned if p.exists()]
RECURSIVE Clashes(_, _)
Clashes(ps, files) ==
    IF ps = <<>> THEN <<>>
    ELSE IF Exists(files, Head(ps)) THEN <<Head(ps)>> \o Clashes(Tail(ps), files)
    ELSE Clashes(Tail(ps), files)

\* lines 165-175: plan the file names, then the overwrite guard
SplitPlan ==
    /\ cmd = "split" /\ pc = "s_plan"
    /\ planned' = Plan(ranges, Stem(inputs[1]), outdir, namePattern)
    /\ clashes' = Clashes(planned', fs)
    /\ IF clashes' # <<>> /\ ~overwrite
       THEN /\ stderr' = err("OutputExists", "Refusing to overwrite existing files", <<>>, <<>>, clashes')
            /\ exitCode' = 2
            /\ pc' = "s_finally"
            /\ UNCHANGED k
       ELSE /\ pc' = "s_write"
            /\ k' = 1
            /\ UNCHANGED <<stderr, exitCode>>
    /\ UNCHANGED <<cmd, fs, fs0, dirs, inputs, output, outdir, password, overwrite,
                   namePattern, rangesSpec, total, fhs, readers, writerMeta,
                   writerPages, ranges>>

\* lines 178-183: one iteration of the write loop
SplitWriteSegment ==
    /\ cmd = "split" /\ pc = "s_write" /\ k <= Len(ranges)
    /\ writerPages' = SubSeq(readers[1].doc.pages, ranges[k][1], ranges[k][2])
    /\ fs' = WriteFile(fs, planned[k], MkDoc(writerPages', "", <<>>))
    /\ k' = k + 1
    /\ IF k = Len(ranges)
       THEN pc' = "s_finally" /\ exitCode' = 0
       ELSE UNCHANGED <<pc, exitCode>>
    /\ UNCHANGED <<cmd, fs0, dirs, inputs, output, outdir, password, overwrite,
                   namePattern, rangesSpec, total, fhs, readers, writerMeta,
                   ranges, planned, clashes, stderr>>

\* lines 182-183 when the write raises: the target is left truncated and the
\* loop is abandoned with an uncaught exception
SplitWriteFail ==
    /\ cmd = "split" /\ pc = "s_write" /\ k <= Len(ranges)
    /\ writerPages' = SubSeq(readers[1].doc.pages, ranges[k][1], ranges[k][2])
    /\ fs' = WriteFile(fs, planned[k], Truncated)
    /\ stderr' = err("Traceback", "OSError", <<>>, <<>>, <<planned[k]>>)
    /\ exitCode' = 1
    /\ pc' = "s_finally"
    /\ UNCHANGED <<cmd, fs0, dirs, inputs, output, outdir, password, overwrite,
                   namePattern, rangesSpec, total, fhs, readers, writerMeta,
                   ranges, planned, clashes, k>>

\* lines 185-189
SplitFinally ==
    /\ cmd = "split" /\ pc = "s_finally"
    /\ fhs' = CloseAll(fhs)
    /\ pc' = "done"
    /\ UNCHANGED <<cmd, fs, fs0, dirs, inputs, output, outdir, password, overwrite,
                   namePattern, rangesSpec, total, readers, writerMeta,
                   writerPages, ranges, planned, clashes, k, exitCode, stderr>>

\* ------------------------------------------------------------ the program
Init == InitMerge \/ InitSplit

Next ==
    \/ MergeCheckOutput
    \/ MergeOpenInput
    \/ MergeMetadata
    \/ MergeAddPages
    \/ MergeWrite
    \/ MergeWriteFail
    \/ MergeFinally
    \/ SplitRequireExists
    \/ SplitOpen
    \/ SplitParse
    \/ SplitPlan
    \/ SplitWriteSegment
    \/ SplitWriteFail
    \/ SplitFinally

Spec == Init /\ [][Next]_vars

\* =================================================================== claims
\* ---- the range grammar, stated from positions in the text
Cuts(s) == {0, Len(s) + 1} \cup {i \in 1..Len(s) : s[i] = ","}
\* the text between cut c and the next cut
FieldAt(s, c) == LET n == CHOOSE d \in Cuts(s) : d > c /\ \A e \in Cuts(s) : ~(c < e /\ e < d)
                 IN SubSeq(s, c + 1, n - 1)
Trimmed(f) == LET ink == {i \in 1..Len(f) : f[i] # " "}
              IN IF ink = {} THEN <<>>
                 ELSE SubSeq(f, CHOOSE i \in ink : \A j \in ink : i <= j,
                                CHOOSE i \in ink : \A j \in ink : j <= i)
\* the cuts that open a non-empty token, and the i-th of them
TokenCuts(s) == {c \in Cuts(s) \ {Len(s) + 1} : Trimmed(FieldAt(s, c)) # <<>>}
NthCut(s, i) == CHOOSE c \in TokenCuts(s) : Cardinality({d \in TokenCuts(s) : d < c}) = i - 1
NthToken(s, i) == Trimmed(FieldAt(s, NthCut(s, i)))
TokenCount(s) == Cardinality(TokenCuts(s))

\* the range a token denotes: N, A-B, -B (1..B), A- (A..totalPages)
Denotes(tok, n) ==
    LET dashes == {i \in 1..Len(tok) : tok[i] = "-"}
        d1 == IF dashes = {} THEN 0 ELSE CHOOSE i \in dashes : \A j \in dashes : i <= j
        lhs == PyInt(SubSeq(tok, 1, d1 - 1))
        rhs == PyInt(SubSeq(tok, d1 + 1, Len(tok)))
        open == PyInt(SubSeq(tok, 1, Len(tok) - 1))
    IN IF d1 = 0 THEN [num |-> PyInt(tok).ok, start |-> PyInt(tok).val, end |-> PyInt(tok).val]
       ELSE IF Len(tok) = 1 THEN [num |-> FALSE, start |-> 0, end |-> 0]
       ELSE IF d1 = 1 THEN [num |-> rhs.ok, start |-> 1, end |-> rhs.val]
       ELSE IF tok[Len(tok)] = "-" THEN [num |-> open.ok, start |-> open.val, end |-> n]
       ELSE [num |-> lhs.ok /\ rhs.ok, start |-> lhs.val, end |-> rhs.val]

\* the numbers of the checks a token violates, in the order of the grammar:
\* 1 bare dash / non-numeric, 2 non-positive, 3 inverted, 4 out of bounds
Violated(tok, n) ==
    LET d == Denotes(tok, n)
    IN IF ~d.num THEN {1}
       ELSE {c \in 2..4 : \/ (c = 2 /\ (d.start < 1 \/ d.end < 1))
                         \/ (c = 3 /\ d.start > d.end)
                         \/ (c = 4 /\ (d.start > n \/ d.end > n))}
CheckMsg == <<MsgInvalid, MsgPositive, MsgInverted, MsgBounds>>
Offending(s, n) == {i \in 1..TokenCount(s) : Violated(NthToken(s, i), n) # {}}
Least(S) == CHOOSE x \in S : \A y \in S : x <= y

ParseReturned == cmd = "parse" /\ pc = "done" /\ exitCode = 0
ParseFailed == cmd = "parse" /\ pc = "done" /\ exitCode = 2

\* C1: when parse_ranges succeeds (totalPages >= 1) it returns one range per
\* non-empty trimmed token, in token order, the i-th being the range the i-th
\* token denotes, and every range satisfies 1 <= start <= end <= totalPages.
C1_RangesFollowTokens ==
    (ParseReturned /\ total >= 1) =>
        /\ Len(ranges) = TokenCount(rangesSpec)
        /\ \A i \in 1..Len(ranges) :
              LET d == Denotes(NthToken(rangesSpec, i), total)
              IN /\ ranges[i] = <<d.start, d.end>>
                 /\ 1 <= ranges[i][1] /\ ranges[i][1] <= ranges[i][2] /\ ranges[i][2] <= total

\* two tokens out of page order, the first open-ended, the second repeated pages
C1_Witness ==
    /\ ParseReturned /\ total = 2
    /\ rangesSpec = <<"2", "-", ",", "1">>
    /\ ranges = << <<2, 2>>, <<1, 1>> >>

\* C2: parse_ranges fails exactly when there is no non-empty token or some
\* token violates a check; then it returns no range, and reports the first
\* offending token with the first check that token violates.
C2_FirstFailureReported ==
    (cmd = "parse" /\ pc = "done") =>
        /\ (exitCode = 2) <=> (TokenCount(rangesSpec) = 0 \/ Offending(rangesSpec, total) # {})
        /\ (exitCode = 2) => (ranges = <<>> /\ stderr.kind = "InvalidSpec")
        /\ (exitCode = 2 /\ TokenCount(rangesSpec) = 0) => stderr.msg = MsgEmpty
        /\ (exitCode = 2 /\ TokenCount(rangesSpec) > 0) =>
              LET i == Least(Offending(rangesSpec, total))
                  tok == NthToken(rangesSpec, i)
              IN /\ stderr.tok = tok
                 /\ stderr.msg = CheckMsg[Least(Violated(tok, total))]

\* a valid token followed by one that violates two checks at once
C2_Witness ==
    /\ ParseFailed
    /\ TokenCount(rangesSpec) = 2
    /\ Least(Offending(rangesSpec, total)) = 2
    /\ Cardinality(Violated(NthToken(rangesSpec, 2), total)) >= 2
    /\ stderr.msg = MsgPositive

\* ---- the command flows
FailureKinds == {"InputNotFound", "PasswordRequired", "DecryptionFailed",
                 "InvalidSpec", "OutputExists"}
Succeeded == pc = "done" /\ exitCode = 0
RangeOf(seq) == {seq[i] : i \in 1..Len(seq)}
InputPages(path) == fs0[path].pages

\* C3: a split without --overwrite whose plan meets an existing file fails with
\* OutputExists, reports every planned path that exists and leaves every file
\* as it was.
C3_SplitCollisionWritesNothing ==
    (cmd = "split" /\ ~overwrite /\ planned # <<>>
        /\ \E i \in 1..Len(planned) : Exists(fs0, planned[i])) =>
        /\ fs = fs0
        /\ pc \in {"s_finally", "done"}
        /\ exitCode = 2 /\ stderr.kind = "OutputExists"
        /\ RangeOf(stderr.files) = {p \in RangeOf(planned) : Exists(fs0, p)}

\* the failed run is over and its report names two different existing files
C3_Witness ==
    /\ cmd = "split" /\ pc = "done" /\ ~overwrite
    /\ stderr.kind = "OutputExists"
    /\ Cardinality(RangeOf(stderr.files)) = 2
    /\ fs = fs0

\* C4: after a successful split the file at every segment's planned path holds
\* exactly the input pages start..end of that segment, in order.
C4_EverySegmentKept ==
    (cmd = "split" /\ Succeeded) =>
        \A i \in 1..Len(ranges) :
            /\ Exists(fs, planned[i])
            /\ fs[planned[i]].pages = SubSeq(InputPages(inputs[1]), ranges[i][1], ranges[i][2])

\* number of pages the inputs before position i contribute
RECURSIVE PagesBefore(_)
PagesBefore(i) == IF i <= 1 THEN 0 ELSE PagesBefore(i - 1) + Len(InputPages(inputs[i - 1]))

\* C5: a successful merge writes the concatenation of the inputs' pages, in
\* argument order, each input contributing all its pages in its own order.
C5_MergeConcatenates ==
    (cmd = "merge" /\ Succeeded) =>
        /\ Len(fs[output].pages) = PagesBefore(Len(inputs) + 1)
        /\ \A i \in 1..Len(inputs) : \A j \in 1..Len(InputPages(inputs[i])) :
              fs[output].pages[PagesBefore(i) + j] = InputPages(inputs[i])[j]

\* the one-page document first, then the two-page document
C5_Witness ==
    /\ cmd = "merge" /\ Succeeded
    /\ inputs = <<PathB, PathA>>
    /\ Len(InputPages(PathA)) = 2
    /\ Len(fs[output].pages) = 3

FirstMeta == fs0[inputs[1]].meta
Prefixed(meta) == {q \in DOMAIN meta : q # <<>> /\ q[1] = "/"}

\* C6 as stated: the output metadata is the first input's '/'-prefixed entries
\* copied verbatim, entries with a null value being skipped.
C6_NullValuesSkipped ==
    (cmd = "merge" /\ Succeeded) =>
        /\ DOMAIN fs[output].meta = {q \in Prefixed(FirstMeta) : ~FirstMeta[q].none}
        /\ \A q \in DOMAIN fs[output].meta : fs[output].meta[q] = FirstMeta[q]

\* C6 amended: the output metadata is the first input's '/'-prefixed entries, a
\* null value being written as the empty string, and it is empty when the first
\* input has no metadata, whatever the later inputs carry.
C6_NullValuesBecomeEmpty ==
    (cmd = "merge" /\ Succeeded) =>
        /\ DOMAIN fs[output].meta = Prefixed(FirstMeta)
        /\ \A q \in Prefixed(FirstMeta) :
              fs[output].meta[q] = IF FirstMeta[q].none THEN StrVal(<<>>) ELSE FirstMeta[q]
        /\ FirstMeta = <<>> => fs[output].meta = <<>>

\* the first input has a null-valued prefixed key and an unprefixed key, the
\* second input has metadata of its own
C6_Witness ==
    /\ cmd = "merge" /\ Succeeded
    /\ inputs = <<PathA, PathB>>
    /\ \E q \in Prefixed(FirstMeta) : FirstMeta[q].none
    /\ <<"P">> \in DOMAIN FirstMeta
    /\ fs0[PathB].meta # <<>>

\* a missing merge input surfaces as an uncaught FileNotFoundError
MissingInput == stderr.kind = "InputNotFound" \/ stderr.msg = "FileNotFoundError"
Failed == stderr.kind \in FailureKinds \/ MissingInput

\* C7: an invocation that fails on a missing or encrypted input, a rejected
\* password, an invalid range spec or an output collision leaves every file as
\* it was; merge checks the output before it opens an input and writes only
\* once every input is opened and appended; split writes only after its checks.
C7_FailureWritesNothing ==
    /\ Failed => fs = fs0
    /\ (cmd = "merge" /\ stderr.kind = "OutputExists") => fhs = <<>>
    /\ (cmd = "merge" /\ fs # fs0) =>
          /\ Len(readers) = Len(inputs)
          /\ writerPages = AllPages(readers)
    /\ (cmd = "split" /\ fs # fs0) =>
          /\ ranges # <<>> /\ Len(planned) = Len(ranges)
          /\ overwrite \/ clashes = <<>>

\* the second input is encrypted and no password was given, while the output
\* exists and --overwrite allows replacing it
C7_Witness ==
    /\ cmd = "merge" /\ pc = "done"
    /\ Len(inputs) = 2
    /\ stderr.kind = "PasswordRequired" /\ stderr.path = inputs[2]
    /\ overwrite /\ Exists(fs0, output)
    /\ fs = fs0

\* C8: every invocation ends with status 0 on success and with status 2 and a
\* message of one of the failure kinds otherwise (a failing write aside).
C8_ExitCodeZeroOrTwo ==
    (cmd \in {"merge", "split"} /\ pc = "done" /\ stderr.msg # "OSError") =>
        \/ exitCode = 0 /\ stderr = NoErr
        \/ exitCode = 2 /\ stderr.kind \in FailureKinds

\* the text a replacement field or literal of a name pattern stands for
FieldText(item, base, start, end, multi) ==
    CASE item = "{base}" -> base
      [] item = "{start}" -> PyStr(start)
      [] item = "{end}" -> PyStr(end)
      [] item = "{page}" -> (IF start = end THEN PyStr(start) ELSE multi)
      [] OTHER -> <<item>>
RECURSIVE Concat(_)
Concat(ss) == IF ss = <<>> THEN <<>> ELSE Head(ss) \o Concat(Tail(ss))
ExpectedName(base, start, end, multi) ==
    IF namePattern # <<>>
    THEN Concat([i \in 1..Len(namePattern) |-> FieldText(namePattern[i], base, start, end, multi)])
    ELSE base \o <<"_", "p">> \o PyStr(start)
         \o (IF start = end THEN <<>> ELSE <<"-">> \o PyStr(end)) \o <<".", "p", "d", "f">>
NamesAre(multi) ==
    (cmd = "split" /\ planned # <<>>) =>
        \A i \in 1..Len(ranges) :
            planned[i] = outdir \o <<"/">>
                         \o ExpectedName(Stem(inputs[1]), ranges[i][1], ranges[i][2], multi)

\* C9 as stated: {page} of a range of several pages is replaced by nothing.
C9_PageEmptyForRange == NamesAre(<<>>)

\* C9 amended: {page} of a range of several pages is replaced by the text
\* None; {base}, {start}, {end} are substituted, {page} is start when
\* start = end, and without a pattern the name is base_pS.pdf or base_pS-E.pdf.
C9_PageNoneForRange == NamesAre(NoneText)

\* a pattern with {page}, planned for a range of two pages and a single page
C9_Witness ==
    /\ cmd = "split" /\ Len(planned) = 2
    /\ "{page}" \in RangeOf(namePattern)
    /\ ranges = << <<1, 2>>, <<2, 2>> >>

\* C10: every input handle is closed when the invocation has ended, whatever
\* the exit path, and merge closes no handle before it is through writing the
\* output: all inputs are open while pages are copied and written.
C10_HandlesReleased ==
    /\ pc = "done" => \A i \in 1..Len(fhs) : ~fhs[i].open
    /\ (cmd \in {"merge", "split"} /\ pc # "done") => \A i \in 1..Len(fhs) : fhs[i].open
    /\ (cmd = "merge" /\ pc \in {"m_pages", "m_write"}) => Len(fhs) = Len(inputs)
    /\ (cmd = "merge" /\ exitCode = 0 /\ \E i \in 1..Len(fhs) : ~fhs[i].open) =>
          fs[output] = MkDoc(writerPages, "", writerMeta)

\* a merge that ended on a rejected password at its second input, both handles
\* having been opened
C10_Witness ==
    /\ cmd = "merge" /\ pc = "done"
    /\ stderr.kind = "DecryptionFailed"
    /\ Len(fhs) = 2 /\ Len(readers) = 1
    /\ \A i \in 1..Len(fhs) : ~fhs[i].open

====
